---- MODULE Spec2Model ----
(***************************************************************************)
(* The outgoing-message pipeline of a room: SendQueue and the PendingEvents *)
(* it owns, the durable pendingEvents store, the transport and the sync     *)
(* path that reports remote echoes.                                         *)
(*                                                                          *)
(* An action is everything the code runs between two suspension points:     *)
(* an attachment upload, an encryption call, an event transmission and      *)
(* every durable-store transaction suspend, nothing else does.  The store   *)
(* is an IndexedDB database (storage.js): the readwrite transactions on the *)
(* pendingEvents store run one at a time in the order they were created,    *)
(* and the code awaiting a transaction goes on before the requests of the   *)
(* next one are answered.                                                   *)
(*                                                                          *)
(* Beside it two smaller state machines of the same code base: the GapTile  *)
(* of the timeline with the room.fillGap calls it makes, and the            *)
(* ToDeviceChannel of a key verification with the to-device messages it     *)
(* receives and sends.  They share no state with the queue.                 *)
(***************************************************************************)
EXTENDS Integers, Sequences, FiniteSets, TLC

\* The number of PendingEvents created over a run of the whole queue, over a
\* run without redactions, and over a run in which every redaction redacts the
\* event enqueued last.
MaxEvents == 2
MaxPlainEvents == 3
MaxChainEvents == 3

\* The number of PendingEvents created over a run with restarts.
MaxRecoveredEvents == 2

\* The number of notifyVisible calls running at a time, the number of times
\* the entry of the gap is replaced, and the number of tokens of past
\* room.fillGap calls that are remembered.
MaxCalls == 2
MaxUpdates == 3
MaxHistory == 3

\* The number of transaction ids and of devices of the other user, and the
\* number of hsApi.sendToDevice requests in flight at a time.
MaxTxnIds == 2
MaxDevices == 2
MaxRequests == 2

\* The number of events one call of removeRemoteEchos is given.
MaxBatch == 2

\* The number of transactions callers of the queue (enqueueEvent,
\* enqueueRedaction, the sync) have created and not yet seen commit.
MaxTxns == 2

\* JavaScript's undefined (a property never assigned) and null.
Undefined == 0
Null == -1

VARIABLES
    pe,             \* every PendingEvent object created, by txnId:
                    \* [data, status] and, of its history, accepted (the server
                    \* has the event), delivered (transport calls that returned
                    \* an event id), tried (_sendEvent threw or transmitted),
                    \* echoed (removeRemoteEchos matched it), heldOffline (it
                    \* joined the collection while the queue was offline and
                    \* resumeSending has not been called since), recovered
                    \* (the constructor made it from a record of the store)
    store,          \* the durable pendingEvents store of the room: queueIndex -> data
    pendingEvents,  \* SendQueue._pendingEvents: txnIds sorted by queueIndex
    isSending,      \* SendQueue._isSending
    offline,        \* SendQueue._offline
    roomEncryption, \* SendQueue._roomEncryption is set
    loops,          \* the running _sendLoop callbacks: [pc, cur]
    txns,           \* the readwrite transactions created and not yet committed,
                    \* oldest first: [op, pe, arg], what the creator does in it
    echoRemoved,    \* what removeRemoteEchos returned, until emitRemovals
    tile,           \* the GapTile: _loading, _error, _siblingChanged, _entry,
                    \* isDisposed
    fillGap,        \* the room.fillGap calls in flight: [entry, by], by the
                    \* notifyVisible call that made it, 0 for a caller of fill
    notifyVisible,  \* the notifyVisible calls running, by their number:
                    \* [depth, pc, started (the fills it has started)]
    filled,         \* the tokens room.fillGap was called with, oldest first
    channel,        \* the ToDeviceChannel: id, _isCancelled, isDisposed,
                    \* otherUserDeviceId, receivedMessages, sentMessages, waitMap
    sendToDevice,   \* the hsApi.sendToDevice requests in flight:
                    \* [type, content, to, then (what the caller does next)]
    inbox           \* the to-device messages handled and the cancel requests
                    \* made for them: [type, transaction_id, cancels]

queueVars == <<pe, store, pendingEvents, isSending, offline, roomEncryption,
               loops, txns, echoRemoved>>

tileVars == <<tile, fillGap, notifyVisible, filled>>

channelVars == <<channel, sendToDevice, inbox>>

vars == <<queueVars, tileVars, channelVars>>

----------------------------------------------------------------------------
\* Identifiers

\* The n-th transaction id the client generates.
makeTxnId(n) == n

\* The event id the server assigns to the event sent under txnId t; the
\* transport is idempotent in the txnId.  EventIdOf(0) is an event of the
\* timeline that this queue did not send.
EventIdOf(t) == 100 + t

isTxnId(id) == id >= 1 /\ id < EventIdOf(0)

Created == 1..Len(pe)

----------------------------------------------------------------------------
\* PendingEvent

needsUpload(p) == p.data.needsUpload

needsEncryption(p) == p.data.needsEncryption

needsSending(p) == p.data.remoteId = Undefined

SetStatus(peV, t, s) == [peV EXCEPT ![t].status = s]

setWaiting(peV, t) == SetStatus(peV, t, "Waiting")

setEncrypting(peV, t) == SetStatus(peV, t, "Encrypting")

setEncrypted(peV, t) == [peV EXCEPT ![t].data.needsEncryption = FALSE]

setError(peV, t) == SetStatus(peV, t, "Error")

setRelatedEventId(peV, t, id) == [peV EXCEPT ![t].data.relatedEventId = id]

\* uploadAttachments up to its suspension, and its return.
uploadStarted(peV, t) == SetStatus(peV, t, "UploadingAttachments")

uploadFinished(peV, t) == [peV EXCEPT ![t].data.needsUpload = FALSE]

\* send up to the transport call, and its successful return.
sendStarted(peV, t) == SetStatus(peV, t, "Sending")

sendFinished(peV, t) ==
    [peV EXCEPT ![t].data.remoteId = EventIdOf(t), ![t].status = "Sent",
                ![t].accepted = TRUE, ![t].delivered = @ + 1, ![t].tried = TRUE]

\* _sendEvent threw for each event of ts.
Threw(peV, ts) ==
    [t \in DOMAIN peV |-> IF t \in ts THEN [peV[t] EXCEPT !.tried = TRUE] ELSE peV[t]]

\* The events something still refers to: the collection, a running loop, a
\* pending _removeEvent, a list awaiting emitRemovals.
Referenced(arr, lps, txs, echo) ==
    {arr[i] : i \in 1..Len(arr)} \cup {lps[i].cur : i \in 1..Len(lps)}
    \cup {txs[i].pe : i \in {j \in 1..Len(txs) : txs[j].op = "remove"}}
    \cup {echo[i] : i \in 1..Len(echo)}

\* An object nothing refers to any more is garbage: of a collected event only
\* the txnId, the queue index it was given and whether its echo came are kept.
Collected(p) ==
    [data |-> [queueIndex |-> p.data.queueIndex, txnId |-> p.data.txnId,
               remoteId |-> Undefined, redaction |-> FALSE, relatedTxnId |-> Null,
               relatedEventId |-> Null, needsEncryption |-> FALSE,
               needsUpload |-> FALSE],
     status |-> "Collected", accepted |-> FALSE, delivered |-> 0, tried |-> FALSE,
     echoed |-> p.echoed, heldOffline |-> FALSE, recovered |-> FALSE]

Collect(peV, live) ==
    [t \in DOMAIN peV |-> IF t \in live THEN peV[t] ELSE Collected(peV[t])]

----------------------------------------------------------------------------
\* SortedArray, ordered by the comparator (a, b) => a.queueIndex - b.queueIndex

QueueIndexOf(peV, t) == peV[t].data.queueIndex

\* indexOf / findIndex: the first position (from 1), or 0 where the code has -1.
IndexOf(arr, t) ==
    IF \E i \in 1..Len(arr) : arr[i] = t
    THEN CHOOSE i \in 1..Len(arr) : arr[i] = t /\ \A j \in 1..(i-1) : arr[j] # t
    ELSE 0

FindByTxnId(arr, peV, txnId) ==
    IF \E i \in 1..Len(arr) : peV[arr[i]].data.txnId = txnId
    THEN CHOOSE i \in 1..Len(arr) :
            /\ peV[arr[i]].data.txnId = txnId
            /\ \A j \in 1..(i-1) : peV[arr[j]].data.txnId # txnId
    ELSE 0

FindByRemoteId(arr, peV, id) ==
    IF \E i \in 1..Len(arr) : peV[arr[i]].data.remoteId = id
    THEN CHOOSE i \in 1..Len(arr) :
            /\ peV[arr[i]].data.remoteId = id
            /\ \A j \in 1..(i-1) : peV[arr[j]].data.remoteId # id
    ELSE 0

\* remove(idx): splices one element out; a position past the end removes nothing.
RemoveAt(arr, idx) ==
    IF idx \in 1..Len(arr)
    THEN SubSeq(arr, 1, idx - 1) \o SubSeq(arr, idx + 1, Len(arr))
    ELSE arr

\* set(item): inserts at the sorted position, replacing an element that
\* compares equal.
SetSorted(arr, peV, t) ==
    LET q == QueueIndexOf(peV, t)
    IN  SelectSeq(arr, LAMBDA u : QueueIndexOf(peV, u) < q) \o <<t>>
        \o SelectSeq(arr, LAMBDA u : QueueIndexOf(peV, u) > q)

\* The iterator's step: the first element ordered after queue index q in the
\* collection as it is now.
NextAfter(arr, peV, q) == SelectSeq(arr, LAMBDA u : QueueIndexOf(peV, u) > q)

----------------------------------------------------------------------------
\* The durable store

storeExists(st, q) == q \in DOMAIN st

storePut(st, d) ==
    [k \in DOMAIN st \cup {d.queueIndex} |-> IF k = d.queueIndex THEN d ELSE st[k]]

storeRemove(st, q) == [k \in DOMAIN st \ {q} |-> st[k]]

getMaxQueueIndex(st) ==
    IF DOMAIN st = {} THEN Undefined
    ELSE CHOOSE m \in DOMAIN st : \A k \in DOMAIN st : k <= m

\* _tryUpdateEventWithTxn: writes the event's data under its key if the key exists.
tryUpdateEventWithTxn(st, peV, t) ==
    IF storeExists(st, QueueIndexOf(peV, t)) THEN storePut(st, peV[t].data) ELSE st

----------------------------------------------------------------------------
\* Errors a step can fail with

Errors ==
    {[name |-> "ConnectionError", statusCode |-> 0], [name |-> "Error", statusCode |-> 0]}
    \cup {[name |-> "HomeServerError", statusCode |-> s] : s \in {400, 403, 404, 500}}

isConnectionError(err) == err.name = "ConnectionError"

isPermanentError(err) ==
    err.name = "HomeServerError" /\ err.statusCode \in {400, 403, 404}

----------------------------------------------------------------------------
\* Relations

RECURSIVE ResolveEach(_, _, _, _)
ResolveEach(related, peV, st, remoteId) ==
    IF related = <<>>
    THEN [pe |-> peV, store |-> st]
    ELSE LET t == Head(related)
             peW == setRelatedEventId(peV, t, remoteId)
         IN  ResolveEach(Tail(related), peW, tryUpdateEventWithTxn(st, peW, t), remoteId)

\* The events of the collection the resolution pass selects.
RelatedWithoutRemoteId(arr, peV, txnId, remoteId) ==
    SelectSeq(arr, LAMBDA u : /\ peV[u].data.relatedTxnId = txnId
                              /\ peV[u].data.relatedEventId # remoteId)

\* A resolution pass that selects no event.
resolveNoRelations(arr, peV, st, txnId, remoteId) == [pe |-> peV, store |-> st]

\* _resolveRemoteIdInPendingRelations within the transaction writing st.
resolveRemoteIdInPendingRelations(arr, peV, st, txnId, remoteId) ==
    ResolveEach(RelatedWithoutRemoteId(arr, peV, txnId, remoteId), peV, st, remoteId)

----------------------------------------------------------------------------
\* The send loop

\* The loop's for-of over the live collection and _sendEvent, run from after
\* queue index q (IterateFrom) or from a step of event t (SendEventFrom) to the
\* next suspension point: [pe, pc, cur, threw], pc = "done" when the iteration
\* ends, threw the events whose _sendEvent threw on the way.
RECURSIVE IterateFrom(_, _, _, _, _)
RECURSIVE SendEventFrom(_, _, _, _, _, _)

\* _sendEvent without the test of needsSending.
SendEventFromAlways(peV, arr, t, stage, enc, threw) ==
    IF stage = "upload" /\ needsUpload(peV[t])
    THEN [pe |-> uploadStarted(peV, t), pc |-> "upload", cur |-> t, threw |-> threw]
    ELSE IF stage \in {"upload", "encrypt"} /\ needsEncryption(peV[t])
    THEN IF enc
         THEN [pe |-> setEncrypting(peV, t), pc |-> "encrypt", cur |-> t, threw |-> threw]
         ELSE IterateFrom(setError(setEncrypting(peV, t), t), arr,
                          QueueIndexOf(peV, t), enc, threw \cup {t})
    ELSE [pe |-> sendStarted(peV, t), pc |-> "send", cur |-> t, threw |-> threw]

\* _sendEvent that uploads whether or not the event needs an upload.
SendEventFromUnflagged(peV, arr, t, stage, enc, threw) ==
    IF stage = "upload"
    THEN [pe |-> uploadStarted(peV, t), pc |-> "upload", cur |-> t, threw |-> threw]
    ELSE IF stage = "encrypt" /\ needsEncryption(peV[t])
    THEN IF enc
         THEN [pe |-> setEncrypting(peV, t), pc |-> "encrypt", cur |-> t, threw |-> threw]
         ELSE IterateFrom(setError(setEncrypting(peV, t), t), arr,
                          QueueIndexOf(peV, t), enc, threw \cup {t})
    ELSE IF needsSending(peV[t])
    THEN [pe |-> sendStarted(peV, t), pc |-> "send", cur |-> t, threw |-> threw]
    ELSE IterateFrom(peV, arr, QueueIndexOf(peV, t), enc, threw)

SendEventFrom(peV, arr, t, stage, enc, threw) ==
    IF stage = "upload" /\ needsUpload(peV[t])
    THEN [pe |-> uploadStarted(peV, t), pc |-> "upload", cur |-> t, threw |-> threw]
    ELSE IF stage \in {"upload", "encrypt"} /\ needsEncryption(peV[t])
    THEN IF enc
         THEN [pe |-> setEncrypting(peV, t), pc |-> "encrypt", cur |-> t, threw |-> threw]
         ELSE \* no encryption context: the call throws a TypeError
              IterateFrom(setError(setEncrypting(peV, t), t), arr,
                          QueueIndexOf(peV, t), enc, threw \cup {t})
    ELSE IF needsSending(peV[t])
    THEN [pe |-> sendStarted(peV, t), pc |-> "send", cur |-> t, threw |-> threw]
    ELSE IterateFrom(peV, arr, QueueIndexOf(peV, t), enc, threw)

IterateFrom(peV, arr, q, enc, threw) ==
    LET rest == NextAfter(arr, peV, q)
    IN  IF rest = <<>>
        THEN [pe |-> peV, pc |-> "done", cur |-> 0, threw |-> threw]
        ELSE SendEventFrom(peV, arr, rest[1], "upload", enc, threw)

\* The loop i reaches its next suspension point, or ends (the finally block),
\* with the collection arr and the transactions txs pending.
LoopMoves(i, r, arr, txs) ==
    LET lps == IF r.pc = "done" THEN RemoveAt(loops, i)
               ELSE [loops EXCEPT ![i] = [pc |-> r.pc, cur |-> r.cur]]
    IN  /\ loops' = lps
        /\ pe' = Collect(Threw(r.pe, r.threw), Referenced(arr, lps, txs, echoRemoved))
        /\ isSending' = IF r.pc = "done" THEN FALSE ELSE isSending

\* _sendLoop, called with the events peV, the collection arr and the
\* transactions txs pending.
sendLoop(peV, arr, txs) ==
    LET r == IterateFrom(peV, arr, 0, roomEncryption, {})
        lps == IF r.pc = "done" THEN loops
               ELSE Append(loops, [pc |-> r.pc, cur |-> r.cur])
    IN  /\ loops' = lps
        /\ pe' = Collect(Threw(r.pe, r.threw), Referenced(arr, lps, txs, echoRemoved))
        /\ isSending' = (r.pc # "done")

\* readWriteTxn: a transaction is created, behind the pending ones.
readWriteTxn(txs, op, t, arg) == Append(txs, [op |-> op, pe |-> t, arg |-> arg])

\* The requests of the oldest pending transaction are the ones answered.
Active(op, t) == txns # <<>> /\ Head(txns).op = op /\ Head(txns).pe = t

\* The transactions the callers of the queue have pending.
CallerTxns == SelectSeq(txns, LAMBDA x : x.op \in {"enqueue", "remove", "sync"})


----------------------------------------------------------------------------
\* GapTile

\* The pagination token of the entry the tile is constructed with.
FirstToken == 5

\* The entry of the gap: the token room.fillGap paginates from, whether the
\* edge of the timeline is reached, whether the entry is still a gap.
FirstEntry == [token |-> FirstToken, edgeReached |-> FALSE, isGap |-> TRUE]

\* The constructor.
GapTile(entry) ==
    [loading |-> FALSE, error |-> FALSE, siblingChanged |-> FALSE,
     entry |-> entry, isDisposed |-> FALSE]

\* The number of backfills one notifyVisible call makes at most.
MaxDepth == 10

\* A notifyVisible call that is not running.
NotRunning == [depth |-> 0, pc |-> "idle", started |-> 0]

----------------------------------------------------------------------------
\* ToDeviceChannel

\* The event types and cancel codes of ./types that the channel names.
VerificationEventTypes ==
    [Request |-> "m.key.verification.request",
     Ready |-> "m.key.verification.ready",
     Start |-> "m.key.verification.start",
     Accept |-> "m.key.verification.accept",
     Key |-> "m.key.verification.key",
     Cancel |-> "m.key.verification.cancel",
     Mac |-> "m.key.verification.mac",
     Done |-> "m.key.verification.done"]

CancelTypes ==
    [UserCancelled |-> "m.user",
     OtherDeviceAccepted |-> "m.accepted",
     UnknownTransaction |-> "m.unknown_transaction"]

\* event.type.startsWith("m.key.verification."), for the types that occur.
startsWithVerification(type) ==
    \E name \in DOMAIN VerificationEventTypes : VerificationEventTypes[name] = type

TxnIds == 1..MaxTxnIds
Devices == 1..MaxDevices

\* No startingMessage is passed to the constructor.
NoMessage == [type |-> "", transaction_id |-> Undefined, from_device |-> Undefined]

\* The constructor: with a startingMessage the channel takes its id and the
\* sending device from the message and buffers it.
ToDeviceChannel(startingMessage) ==
    IF startingMessage = NoMessage
    THEN [id |-> Undefined, isCancelled |-> FALSE, isDisposed |-> FALSE,
          otherUserDeviceId |-> Undefined, receivedMessages |-> {},
          sentMessages |-> {}, waitMap |-> {}]
    ELSE [id |-> startingMessage.transaction_id, isCancelled |-> FALSE,
          isDisposed |-> FALSE, otherUserDeviceId |-> startingMessage.from_device,
          receivedMessages |-> {startingMessage.type}, sentMessages |-> {},
          waitMap |-> {}]

----------------------------------------------------------------------------
\* The state after the constructor of the queue.
InitQueue ==
    /\ pe = <<>>
    /\ store = <<>>
    /\ pendingEvents = <<>>
    /\ isSending = FALSE
    /\ offline = FALSE
    /\ roomEncryption = FALSE
    /\ loops = <<>>
    /\ txns = <<>>
    /\ echoRemoved = <<>>

\* The state after the constructor of the tile.
InitTile ==
    /\ tile = GapTile(FirstEntry)
    /\ fillGap = <<>>
    /\ notifyVisible = [n \in 1..MaxCalls |-> NotRunning]
    /\ filled = <<>>

\* The state after the constructor of the channel.
InitChannel(startingMessage) ==
    /\ channel = ToDeviceChannel(startingMessage)
    /\ sendToDevice = <<>>
    /\ inbox = <<>>

Init == InitQueue /\ InitTile /\ InitChannel(NoMessage)

\* enableEncryption
EnableEncryption ==
    /\ ~roomEncryption
    /\ roomEncryption' = TRUE
    /\ UNCHANGED <<pe, store, pendingEvents, isSending, offline, loops, txns,
                   echoRemoved>>
    /\ UNCHANGED <<tileVars, channelVars>>

\* _enqueueEvent up to the first request of its transaction, in a run that
\* creates limit events.
enqueueEvent(limit, redaction, relatedTxnId, relatedEventId, attachments) ==
    /\ Len(pe) + Len(SelectSeq(txns, LAMBDA x : x.op = "enqueue")) < limit
    /\ Len(CallerTxns) < MaxTxns
    /\ txns' = readWriteTxn(txns, "enqueue", 0,
                            [redaction |-> redaction, relatedTxnId |-> relatedTxnId,
                             relatedEventId |-> relatedEventId,
                             attachments |-> attachments])

\* enqueueEvent
EnqueueEvent(limit, kinds) ==
    /\ \E attachments \in kinds : enqueueEvent(limit, FALSE, Null, Null, attachments)
    /\ UNCHANGED <<pe, store, pendingEvents, isSending, offline, roomEncryption,
                   loops, echoRemoved>>
    /\ UNCHANGED <<tileVars, channelVars>>

\* _createAndStoreEvent that returns the event without adding its record.
createEventUnstored(a) ==
    [pe |-> Append(pe, [data |-> [queueIndex |-> Len(pe) + 1,
                                  txnId |-> makeTxnId(Len(pe) + 1),
                                  remoteId |-> Undefined,
                                  redaction |-> a.redaction,
                                  relatedTxnId |-> a.relatedTxnId,
                                  relatedEventId |-> a.relatedEventId,
                                  needsEncryption |-> (~a.redaction /\ roomEncryption),
                                  needsUpload |-> a.attachments],
                        status |-> "Waiting", accepted |-> FALSE,
                        delivered |-> 0, tried |-> FALSE, echoed |-> FALSE,
                        heldOffline |-> offline, recovered |-> FALSE]),
     store |-> store]

\* _createAndStoreEvent that leaves a gap before the index it allocates.
createAndStoreEventSkipping(a) ==
    LET max == getMaxQueueIndex(store)
        queueIndex == (IF max = Undefined THEN 0 ELSE max) + 2
        data == [queueIndex |-> queueIndex,
                 txnId |-> makeTxnId(Len(pe) + 1),
                 remoteId |-> Undefined,
                 redaction |-> a.redaction,
                 relatedTxnId |-> a.relatedTxnId,
                 relatedEventId |-> a.relatedEventId,
                 needsEncryption |-> (~a.redaction /\ roomEncryption),
                 needsUpload |-> a.attachments]
    IN  [pe |-> Append(pe, [data |-> data, status |-> "Waiting", accepted |-> FALSE,
                            delivered |-> 0, tried |-> FALSE, echoed |-> FALSE,
                            heldOffline |-> offline,
                            recovered |-> FALSE]),
         store |-> storePut(store, data)]

\* _createAndStoreEvent that marks every event of an encrypted room for
\* encryption, redactions included.
createAndStoreEventEncryptingAll(a) ==
    LET max == getMaxQueueIndex(store)
        queueIndex == (IF max = Undefined THEN 0 ELSE max) + 1
        data == [queueIndex |-> queueIndex,
                 txnId |-> makeTxnId(Len(pe) + 1),
                 remoteId |-> Undefined,
                 redaction |-> a.redaction,
                 relatedTxnId |-> a.relatedTxnId,
                 relatedEventId |-> a.relatedEventId,
                 needsEncryption |-> roomEncryption,
                 needsUpload |-> a.attachments]
    IN  [pe |-> Append(pe, [data |-> data, status |-> "Waiting", accepted |-> FALSE,
                            delivered |-> 0, tried |-> FALSE, echoed |-> FALSE,
                            heldOffline |-> offline,
                            recovered |-> FALSE]),
         store |-> storePut(store, data)]

\* _createAndStoreEvent in its transaction: the queue index is allocated and
\* the record added; [pe, store] with the new event last in pe.
createAndStoreEvent(a) ==
    LET max == getMaxQueueIndex(store)
        maxQueueIndex == IF max = Undefined THEN 0 ELSE max
        queueIndex == maxQueueIndex + 1
        data == [queueIndex |-> queueIndex,
                 txnId |-> makeTxnId(Len(pe) + 1),
                 remoteId |-> Undefined,
                 redaction |-> a.redaction,
                 relatedTxnId |-> a.relatedTxnId,
                 relatedEventId |-> a.relatedEventId,
                 needsEncryption |-> (~a.redaction /\ roomEncryption),
                 needsUpload |-> a.attachments]
    IN  [pe |-> Append(pe, [data |-> data, status |-> "Waiting", accepted |-> FALSE,
                            delivered |-> 0, tried |-> FALSE, echoed |-> FALSE,
                            heldOffline |-> offline,
                            recovered |-> FALSE]),
         store |-> storePut(store, data)]

\* The transaction of _createAndStoreEvent and what _enqueueEvent does after
\* its commit: the event joins the collection and the loop is started if none
\* runs and the queue is online.
EnqueueCommitted ==
    /\ Active("enqueue", 0)
    /\ txns' = Tail(txns)
    /\ LET r == createAndStoreEvent(Head(txns).arg)
           t == Len(r.pe)
       IN  /\ store' = r.store
           /\ pendingEvents' = SetSorted(pendingEvents, r.pe, t)
           /\ IF ~isSending /\ ~offline
              THEN sendLoop(r.pe, pendingEvents', txns')
              ELSE /\ pe' = Collect(r.pe, Referenced(pendingEvents', loops, txns',
                                                     echoRemoved))
                   /\ UNCHANGED <<loops, isSending>>
    /\ UNCHANGED <<offline, roomEncryption, echoRemoved>>
    /\ UNCHANGED <<tileVars, channelVars>>

\* The ids a caller can ask to redact: the txnIds of the events this queue
\* created, the event ids the server has assigned to them, and an event id
\* of the timeline.
RedactionTargets ==
    Created \cup {EventIdOf(t) : t \in {u \in Created : pe[u].accepted}}
    \cup {EventIdOf(0)}

\* enqueueRedaction that leaves relatedTxnId unset when the target is named by
\* its event id.
EnqueueRedactionByIdOnly(limit, eventIdOrTxnId) ==
    /\ eventIdOrTxnId \in RedactionTargets
    /\ IF isTxnId(eventIdOrTxnId)
       THEN LET idx == FindByTxnId(pendingEvents, pe, eventIdOrTxnId)
                t == pendingEvents[idx]
            IN  IF idx # 0 /\ pe[t].data.remoteId = Undefined /\ pe[t].status # "Sending"
                THEN /\ Len(CallerTxns) < MaxTxns
                     /\ txns' = readWriteTxn(txns, "remove", t,
                                             IndexOf(pendingEvents, t))
                ELSE IF idx # 0
                THEN enqueueEvent(limit, TRUE, eventIdOrTxnId, pe[t].data.remoteId, FALSE)
                ELSE UNCHANGED txns
       ELSE enqueueEvent(limit, TRUE, Undefined, eventIdOrTxnId, FALSE)
    /\ UNCHANGED <<pe, store, pendingEvents, isSending, offline, roomEncryption,
                   loops, echoRemoved>>
    /\ UNCHANGED <<tileVars, channelVars>>

\* enqueueRedaction that enqueues a redaction also when the txn id names no
\* event of the collection.
EnqueueRedactionOfMissing(limit, eventIdOrTxnId) ==
    /\ eventIdOrTxnId \in RedactionTargets
    /\ IF isTxnId(eventIdOrTxnId)
       THEN LET idx == FindByTxnId(pendingEvents, pe, eventIdOrTxnId)
                t == pendingEvents[idx]
            IN  IF idx # 0 /\ pe[t].data.remoteId = Undefined /\ pe[t].status # "Sending"
                THEN /\ Len(CallerTxns) < MaxTxns
                     /\ txns' = readWriteTxn(txns, "remove", t,
                                             IndexOf(pendingEvents, t))
                ELSE IF idx # 0
                THEN enqueueEvent(limit, TRUE, eventIdOrTxnId, pe[t].data.remoteId, FALSE)
                ELSE enqueueEvent(limit, TRUE, eventIdOrTxnId, Undefined, FALSE)
       ELSE LET idx == FindByRemoteId(pendingEvents, pe, eventIdOrTxnId)
                relatedTxnId == IF idx # 0 THEN pe[pendingEvents[idx]].data.txnId
                                ELSE Undefined
            IN  enqueueEvent(limit, TRUE, relatedTxnId, eventIdOrTxnId, FALSE)
    /\ UNCHANGED <<pe, store, pendingEvents, isSending, offline, roomEncryption,
                   loops, echoRemoved>>
    /\ UNCHANGED <<tileVars, channelVars>>

\* enqueueRedaction up to the first request of its transaction, in a run that
\* creates limit events.
EnqueueRedaction(limit, eventIdOrTxnId) ==
    /\ eventIdOrTxnId \in RedactionTargets
    /\ IF isTxnId(eventIdOrTxnId)
       THEN LET idx == FindByTxnId(pendingEvents, pe, eventIdOrTxnId)
                t == pendingEvents[idx]
            IN  IF idx # 0 /\ pe[t].data.remoteId = Undefined /\ pe[t].status # "Sending"
                THEN \* pe.abort(): _removeEvent up to its transaction
                     /\ Len(CallerTxns) < MaxTxns
                     /\ txns' = readWriteTxn(txns, "remove", t,
                                             IndexOf(pendingEvents, t))
                ELSE IF idx # 0
                THEN enqueueEvent(limit, TRUE, eventIdOrTxnId, pe[t].data.remoteId, FALSE)
                ELSE UNCHANGED txns
       ELSE LET idx == FindByRemoteId(pendingEvents, pe, eventIdOrTxnId)
                relatedTxnId == IF idx # 0 THEN pe[pendingEvents[idx]].data.txnId
                                ELSE Undefined
            IN  enqueueEvent(limit, TRUE, relatedTxnId, eventIdOrTxnId, FALSE)
    /\ UNCHANGED <<pe, store, pendingEvents, isSending, offline, roomEncryption,
                   loops, echoRemoved>>
    /\ UNCHANGED <<tileVars, channelVars>>

\* _removeEvent, called by enqueueRedaction, in its transaction and after the
\* commit: the record is removed and the element at the position found
\* before the suspension is spliced out of the collection.
RemoveEventCommitted ==
    /\ txns # <<>>
    /\ Head(txns).op = "remove"
    /\ txns' = Tail(txns)
    /\ store' = storeRemove(store, QueueIndexOf(pe, Head(txns).pe))
    /\ pendingEvents' = RemoveAt(pendingEvents, Head(txns).arg)
    /\ pe' = Collect(pe, Referenced(pendingEvents', loops, txns', echoRemoved))
    /\ UNCHANGED <<isSending, offline, roomEncryption, loops, echoRemoved>>
    /\ UNCHANGED <<tileVars, channelVars>>

\* resumeSending has been called: no event is held back any more.
Released(peV) == [t \in DOMAIN peV |-> [peV[t] EXCEPT !.heldOffline = FALSE]]

\* resumeSending without the test of _isSending.
ResumeSendingUnguarded ==
    /\ offline' = FALSE
    /\ IF Len(pendingEvents) # 0
       THEN sendLoop(Released(pe), pendingEvents, txns)
       ELSE pe' = Released(pe) /\ UNCHANGED <<loops, isSending>>
    /\ UNCHANGED <<store, pendingEvents, roomEncryption, txns, echoRemoved>>
    /\ UNCHANGED <<tileVars, channelVars>>

\* resumeSending
ResumeSending ==
    /\ offline' = FALSE
    /\ IF Len(pendingEvents) # 0 /\ ~isSending
       THEN sendLoop(Released(pe), pendingEvents, txns)
       ELSE pe' = Released(pe) /\ UNCHANGED <<loops, isSending>>
    /\ UNCHANGED <<store, pendingEvents, roomEncryption, txns, echoRemoved>>
    /\ UNCHANGED <<tileVars, channelVars>>

----------------------------------------------------------------------------
\* The steps of a running loop

\* The catch block of the loop for the event the loop is at.
HandleError(i, err) ==
    LET t == loops[i].cur
        q == QueueIndexOf(pe, t)
    IN  IF isConnectionError(err)
        THEN /\ offline' = TRUE
             /\ LoopMoves(i, IterateFrom(setWaiting(pe, t), pendingEvents, q,
                                         roomEncryption, {t}), pendingEvents, txns)
             /\ UNCHANGED txns
        ELSE IF isPermanentError(err)
        THEN \* pendingEvent.abort(): _removeEvent up to its transaction
             LET idx == IndexOf(pendingEvents, t)
             IN  /\ UNCHANGED offline
                 /\ IF idx # 0
                    THEN /\ loops' = [loops EXCEPT ![i] = [pc |-> "abortTxn", cur |-> t]]
                         /\ txns' = readWriteTxn(txns, "abort", t, idx)
                         /\ pe' = Threw(pe, {t})
                         /\ UNCHANGED isSending
                    ELSE /\ LoopMoves(i, IterateFrom(pe, pendingEvents, q,
                                                     roomEncryption, {t}),
                                      pendingEvents, txns)
                         /\ UNCHANGED txns
        ELSE /\ UNCHANGED <<offline, txns>>
             /\ LoopMoves(i, IterateFrom(setError(pe, t), pendingEvents, q,
                                         roomEncryption, {t}), pendingEvents, txns)

\* The request of the transmission in flight reaches the server.
ServerAccepts(i) ==
    /\ i \in 1..Len(loops)
    /\ loops[i].pc = "send"
    /\ ~pe[loops[i].cur].accepted
    /\ pe' = [pe EXCEPT ![loops[i].cur].accepted = TRUE]
    /\ UNCHANGED <<store, pendingEvents, isSending, offline, roomEncryption,
                   loops, txns, echoRemoved>>
    /\ UNCHANGED <<tileVars, channelVars>>

\* An upload, an encryption or a transmission throws.  Once the server has
\* accepted the event only the response can be lost.
StepFails(i, err) ==
    /\ i \in 1..Len(loops)
    /\ loops[i].pc \in {"upload", "encrypt", "send"}
    /\ err \in Errors
    /\ pe[loops[i].cur].accepted => isConnectionError(err)
    /\ HandleError(i, err)
    /\ UNCHANGED <<store, pendingEvents, roomEncryption, echoRemoved>>
    /\ UNCHANGED <<tileVars, channelVars>>

\* uploadAttachments returns; _tryUpdateEvent creates its transaction.
UploadReturns(i) ==
    /\ i \in 1..Len(loops)
    /\ loops[i].pc = "upload"
    /\ pe' = uploadFinished(pe, loops[i].cur)
    /\ loops' = [loops EXCEPT ![i].pc = "uploadTxn"]
    /\ txns' = readWriteTxn(txns, "update", loops[i].cur, 0)
    /\ UNCHANGED <<store, pendingEvents, isSending, offline, roomEncryption,
                   echoRemoved>>
    /\ UNCHANGED <<tileVars, channelVars>>

\* encrypt returns; _tryUpdateEvent creates its transaction.
EncryptReturns(i) ==
    /\ i \in 1..Len(loops)
    /\ loops[i].pc = "encrypt"
    /\ pe' = setEncrypted(pe, loops[i].cur)
    /\ loops' = [loops EXCEPT ![i].pc = "encryptTxn"]
    /\ txns' = readWriteTxn(txns, "update", loops[i].cur, 0)
    /\ UNCHANGED <<store, pendingEvents, isSending, offline, roomEncryption,
                   echoRemoved>>
    /\ UNCHANGED <<tileVars, channelVars>>

\* The transaction of _tryUpdateEvent; after its commit _sendEvent goes on
\* with the event's next step.
UpdateCommitted(i) ==
    /\ i \in 1..Len(loops)
    /\ loops[i].pc \in {"uploadTxn", "encryptTxn"}
    /\ Active("update", loops[i].cur)
    /\ txns' = Tail(txns)
    /\ store' = tryUpdateEventWithTxn(store, pe, loops[i].cur)
    /\ LoopMoves(i, SendEventFrom(pe, pendingEvents, loops[i].cur,
                                  IF loops[i].pc = "uploadTxn" THEN "encrypt" ELSE "send",
                                  roomEncryption, {}), pendingEvents, txns')
    /\ UNCHANGED <<pendingEvents, offline, roomEncryption, echoRemoved>>
    /\ UNCHANGED <<tileVars, channelVars>>

\* pendingEvent.send returns with the event id; _sendEvent creates the
\* transaction that writes it.
SendReturns(i) ==
    /\ i \in 1..Len(loops)
    /\ loops[i].pc = "send"
    /\ pe' = sendFinished(pe, loops[i].cur)
    /\ loops' = [loops EXCEPT ![i].pc = "sentTxn"]
    /\ txns' = readWriteTxn(txns, "update", loops[i].cur, 0)
    /\ UNCHANGED <<store, pendingEvents, isSending, offline, roomEncryption,
                   echoRemoved>>
    /\ UNCHANGED <<tileVars, channelVars>>

\* The transaction of _sendEvent after a transmission: the event's record and
\* the related events are written; after the commit the loop goes on with the
\* next event.
SentCommitted(i) ==
    /\ i \in 1..Len(loops)
    /\ loops[i].pc = "sentTxn"
    /\ Active("update", loops[i].cur)
    /\ txns' = Tail(txns)
    /\ LET t == loops[i].cur
           r == resolveRemoteIdInPendingRelations(
                    pendingEvents, pe, tryUpdateEventWithTxn(store, pe, t),
                    pe[t].data.txnId, pe[t].data.remoteId)
       IN  /\ store' = r.store
           /\ LoopMoves(i, IterateFrom(r.pe, pendingEvents, QueueIndexOf(pe, t),
                                       roomEncryption, {}), pendingEvents, txns')
    /\ UNCHANGED <<pendingEvents, offline, roomEncryption, echoRemoved>>
    /\ UNCHANGED <<tileVars, channelVars>>

\* _removeEvent, called by the loop for a permanent error, in its transaction
\* and after the commit; the loop goes on with the next event.
AbortCommitted(i) ==
    /\ i \in 1..Len(loops)
    /\ loops[i].pc = "abortTxn"
    /\ Active("abort", loops[i].cur)
    /\ txns' = Tail(txns)
    /\ store' = storeRemove(store, QueueIndexOf(pe, loops[i].cur))
    /\ pendingEvents' = RemoveAt(pendingEvents, Head(txns).arg)
    /\ LoopMoves(i, IterateFrom(pe, pendingEvents', QueueIndexOf(pe, loops[i].cur),
                                roomEncryption, {}), pendingEvents', txns')
    /\ UNCHANGED <<offline, roomEncryption, echoRemoved>>
    /\ UNCHANGED <<tileVars, channelVars>>

----------------------------------------------------------------------------
\* Transactions the store rejects

\* The transaction of _createAndStoreEvent fails, in a request or at the
\* commit: nothing is written and _createAndStoreEvent throws, so
\* _enqueueEvent throws to its caller before it touches the collection.
EnqueueFails ==
    /\ Active("enqueue", 0)
    /\ txns' = Tail(txns)
    /\ UNCHANGED <<pe, store, pendingEvents, isSending, offline, roomEncryption,
                   loops, echoRemoved>>
    /\ UNCHANGED <<tileVars, channelVars>>

\* The transaction of _sendEvent after a transmission fails, before the
\* resolution pass has touched a related event or after it (at the commit):
\* nothing is written, _sendEvent throws and the catch block of the loop
\* parks the event with setError; the loop goes on with the next event.
SentFails(i) ==
    /\ i \in 1..Len(loops)
    /\ loops[i].pc = "sentTxn"
    /\ Active("update", loops[i].cur)
    /\ txns' = Tail(txns)
    /\ \E resolved \in BOOLEAN :
          LET t == loops[i].cur
              r == resolveRemoteIdInPendingRelations(
                       pendingEvents, pe, tryUpdateEventWithTxn(store, pe, t),
                       pe[t].data.txnId, pe[t].data.remoteId)
              peR == IF resolved THEN r.pe ELSE pe
          IN  LoopMoves(i, IterateFrom(setError(peR, t), pendingEvents,
                                       QueueIndexOf(pe, t), roomEncryption, {t}),
                        pendingEvents, txns')
    /\ UNCHANGED <<store, pendingEvents, offline, roomEncryption, echoRemoved>>
    /\ UNCHANGED <<tileVars, channelVars>>

\* The removal transaction of a rejected event that fails and leaves
\* _isSending set, as if the loop had no finally block.
AbortFailsStuck(i) ==
    /\ i \in 1..Len(loops)
    /\ loops[i].pc = "abortTxn"
    /\ Active("abort", loops[i].cur)
    /\ txns' = Tail(txns)
    /\ loops' = RemoveAt(loops, i)
    /\ pe' = Collect(pe, Referenced(pendingEvents, loops', txns', echoRemoved))
    /\ UNCHANGED <<store, pendingEvents, isSending, offline, roomEncryption,
                   echoRemoved>>
    /\ UNCHANGED <<tileVars, channelVars>>

\* The transaction of _removeEvent, called by the loop for a permanent error,
\* fails: txn.complete() throws before the event is taken out of the
\* collection, the exception leaves the catch block and the for loop, and the
\* finally block clears _isSending.
AbortFails(i) ==
    /\ i \in 1..Len(loops)
    /\ loops[i].pc = "abortTxn"
    /\ Active("abort", loops[i].cur)
    /\ txns' = Tail(txns)
    /\ loops' = RemoveAt(loops, i)
    /\ isSending' = FALSE
    /\ pe' = Collect(pe, Referenced(pendingEvents, loops', txns', echoRemoved))
    /\ UNCHANGED <<store, pendingEvents, offline, roomEncryption, echoRemoved>>
    /\ UNCHANGED <<tileVars, channelVars>>

\* The transaction of _removeEvent, called by enqueueRedaction, fails:
\* txn.complete() throws to the caller before the event is taken out of the
\* collection.
RemoveFails ==
    /\ txns # <<>>
    /\ Head(txns).op = "remove"
    /\ txns' = Tail(txns)
    /\ pe' = Collect(pe, Referenced(pendingEvents, loops, txns', echoRemoved))
    /\ UNCHANGED <<store, pendingEvents, isSending, offline, roomEncryption,
                   loops, echoRemoved>>
    /\ UNCHANGED <<tileVars, channelVars>>

----------------------------------------------------------------------------
\* Remote echoes

\* The events of this queue a sync can report: an event the server accepted,
\* with or without the transaction id in unsigned.
ServerEvents ==
    UNION {{[event_id |-> EventIdOf(t), transaction_id |-> x] : x \in {Undefined, t}} :
            t \in {u \in Created : pe[u].accepted}}

\* A sync reports an event once.
Batches ==
    {b \in UNION {[1..n -> ServerEvents] : n \in 1..MaxBatch} :
        \A i, j \in 1..Len(b) : b[i].event_id = b[j].event_id => i = j}

\* A sync response with events of this room arrives and the sync creates
\* its transaction; one sync runs at a time.
SyncStarts(events) ==
    /\ events \in Batches
    /\ echoRemoved = <<>>
    /\ \A k \in 1..Len(txns) : txns[k].op # "sync"
    /\ Len(CallerTxns) < MaxTxns
    /\ txns' = readWriteTxn(txns, "sync", 0, events)
    /\ UNCHANGED <<pe, store, pendingEvents, isSending, offline, roomEncryption,
                   loops, echoRemoved>>
    /\ UNCHANGED <<tileVars, channelVars>>

RECURSIVE RemoveEchos(_, _, _, _, _)

\* removeRemoteEchos that looks every event up by its event id.
RemoveEchosByEventId(events, arr, peV, st, removed) ==
    IF events = <<>>
    THEN [pe |-> peV, store |-> st, removed |-> removed]
    ELSE LET event == Head(events)
             idx == FindByRemoteId(arr, peV, event.event_id)
         IN  IF idx # 0
             THEN LET r == resolveRemoteIdInPendingRelations(
                               arr, [peV EXCEPT ![arr[idx]].echoed = TRUE],
                               storeRemove(st, QueueIndexOf(peV, arr[idx])),
                               event.transaction_id, event.event_id)
                  IN  RemoveEchos(Tail(events), arr, r.pe, r.store,
                                  Append(removed, arr[idx]))
             ELSE RemoveEchos(Tail(events), arr, peV, st, removed)

\* The for loop of removeRemoteEchos over events, writing to the caller's
\* transaction st: [pe, store, removed].
RemoveEchos(events, arr, peV, st, removed) ==
    IF events = <<>>
    THEN [pe |-> peV, store |-> st, removed |-> removed]
    ELSE LET event == Head(events)
             txnId == event.transaction_id
             idx == IF txnId # Undefined
                    THEN FindByTxnId(arr, peV, txnId)
                    ELSE FindByRemoteId(arr, peV, event.event_id)
         IN  IF idx # 0
             THEN LET r == resolveRemoteIdInPendingRelations(
                               arr, [peV EXCEPT ![arr[idx]].echoed = TRUE],
                               storeRemove(st, QueueIndexOf(peV, arr[idx])),
                               txnId, event.event_id)
                  IN  RemoveEchos(Tail(events), arr, r.pe, r.store,
                                  Append(removed, arr[idx]))
             ELSE RemoveEchos(Tail(events), arr, peV, st, removed)

\* removeRemoteEchos in the sync's transaction, and the commit.
RemoveRemoteEchos ==
    /\ Active("sync", 0)
    /\ txns' = Tail(txns)
    /\ LET r == RemoveEchos(Head(txns).arg, pendingEvents, pe, store, <<>>)
       IN  /\ pe' = r.pe
           /\ store' = r.store
           /\ echoRemoved' = r.removed
    /\ UNCHANGED <<pendingEvents, isSending, offline, roomEncryption, loops>>
    /\ UNCHANGED <<tileVars, channelVars>>

\* A removal pass that leaves the collection as it is.
RemoveNone(arr, removed) == arr

RECURSIVE RemoveEach(_, _)
RemoveEach(arr, removed) ==
    IF removed = <<>> THEN arr
    ELSE RemoveEach(RemoveAt(arr, IndexOf(arr, Head(removed))), Tail(removed))

\* emitRemovals with the list removeRemoteEchos returned.
EmitRemovals ==
    /\ echoRemoved # <<>>
    /\ pendingEvents' = RemoveEach(pendingEvents, echoRemoved)
    /\ echoRemoved' = <<>>
    /\ pe' = Collect(pe, Referenced(pendingEvents', loops, txns, echoRemoved'))
    /\ UNCHANGED <<store, isSending, offline, roomEncryption, loops, txns>>
    /\ UNCHANGED <<tileVars, channelVars>>

----------------------------------------------------------------------------
\* The end of a session

\* The keys of the store in ascending order.
RECURSIVE SortedKeys(_)
SortedKeys(keys) ==
    IF keys = {} THEN <<>>
    ELSE LET m == CHOOSE k \in keys : \A j \in keys : k <= j
         IN  <<m>> \o SortedKeys(keys \ {m})

\* The constructor, given the records of the room: one PendingEvent per
\* record, Waiting, in a collection sorted by queueIndex.  What the server
\* knows of an event outlives the session, what this session did with it
\* does not.
Rebuilt(peV, st) ==
    [pe |-> [t \in DOMAIN peV |->
                IF \E q \in DOMAIN st : st[q].txnId = t
                THEN [data |-> st[CHOOSE q \in DOMAIN st : st[q].txnId = t],
                      status |-> "Waiting", accepted |-> peV[t].accepted,
                      delivered |-> 0, tried |-> FALSE,
                      echoed |-> peV[t].echoed, heldOffline |-> FALSE,
                      recovered |-> TRUE]
                ELSE Collected(peV[t])],
     pendingEvents |-> [i \in 1..Cardinality(DOMAIN st) |->
                            st[SortedKeys(DOMAIN st)[i]].txnId]]

\* A session end that deletes the records of the room.
RestartDeleting ==
    /\ store' = <<>>
    /\ pe' = Rebuilt(pe, <<>>).pe
    /\ pendingEvents' = <<>>
    /\ isSending' = FALSE
    /\ offline' = FALSE
    /\ roomEncryption' = FALSE
    /\ loops' = <<>>
    /\ txns' = <<>>
    /\ echoRemoved' = <<>>
    /\ UNCHANGED <<tileVars, channelVars>>

\* dispose, the end of the session, and the constructor of the next session
\* with the records of the store: dispose writes nothing; the loop and the
\* transactions not yet run end with the session.
Restart ==
    /\ store' = store
    /\ pe' = Rebuilt(pe, store).pe
    /\ pendingEvents' = Rebuilt(pe, store).pendingEvents
    /\ isSending' = FALSE
    /\ offline' = FALSE
    /\ roomEncryption' = FALSE
    /\ loops' = <<>>
    /\ txns' = <<>>
    /\ echoRemoved' = <<>>
    /\ UNCHANGED <<tileVars, channelVars>>

----------------------------------------------------------------------------
Next ==
    \/ EnableEncryption
    \/ EnqueueEvent(MaxEvents, BOOLEAN)
    \/ EnqueueCommitted
    \/ \E id \in RedactionTargets : EnqueueRedaction(MaxEvents, id)
    \/ RemoveEventCommitted
    \/ ResumeSending
    \/ \E i \in 1..Len(loops) : ServerAccepts(i)
    \/ \E i \in 1..Len(loops), err \in Errors : StepFails(i, err)
    \/ \E i \in 1..Len(loops) : UploadReturns(i)
    \/ \E i \in 1..Len(loops) : EncryptReturns(i)
    \/ \E i \in 1..Len(loops) : UpdateCommitted(i)
    \/ \E i \in 1..Len(loops) : SendReturns(i)
    \/ \E i \in 1..Len(loops) : SentCommitted(i)
    \/ \E i \in 1..Len(loops) : AbortCommitted(i)
    \/ \E events \in Batches : SyncStarts(events)
    \/ RemoveRemoteEchos
    \/ EmitRemovals

Spec == Init /\ [][Next]_vars

\* The queue without redactions.
NextPlain ==
    \/ EnableEncryption
    \/ EnqueueEvent(MaxPlainEvents, BOOLEAN)
    \/ EnqueueCommitted
    \/ ResumeSending
    \/ \E i \in 1..Len(loops) : ServerAccepts(i)
    \/ \E i \in 1..Len(loops), err \in Errors : StepFails(i, err)
    \/ \E i \in 1..Len(loops) : UploadReturns(i)
    \/ \E i \in 1..Len(loops) : EncryptReturns(i)
    \/ \E i \in 1..Len(loops) : UpdateCommitted(i)
    \/ \E i \in 1..Len(loops) : SendReturns(i)
    \/ \E i \in 1..Len(loops) : SentCommitted(i)
    \/ \E i \in 1..Len(loops) : AbortCommitted(i)
    \/ \E events \in Batches : SyncStarts(events)
    \/ RemoveRemoteEchos
    \/ EmitRemovals

SpecPlain == Init /\ [][NextPlain]_vars

\* The unencrypted queue of events without attachments in which every
\* redaction redacts, by its txnId, the event enqueued last, and every sync
\* reports one event with its transaction_id.
NextChain ==
    \/ EnqueueEvent(MaxChainEvents, {FALSE})
    \/ EnqueueCommitted
    \/ \E id \in Created \cap {Len(pe)} : EnqueueRedaction(MaxChainEvents, id)
    \/ RemoveEventCommitted
    \/ ResumeSending
    \/ \E i \in 1..Len(loops) : ServerAccepts(i)
    \/ \E i \in 1..Len(loops), err \in Errors : StepFails(i, err)
    \/ \E i \in 1..Len(loops) : SendReturns(i)
    \/ \E i \in 1..Len(loops) : SentCommitted(i)
    \/ \E i \in 1..Len(loops) : AbortCommitted(i)
    \/ \E events \in {b \in Batches : Len(b) = 1 /\ b[1].transaction_id # Undefined} :
           SyncStarts(events)
    \/ RemoveRemoteEchos
    \/ EmitRemovals

SpecChain == Init /\ [][NextChain]_vars

\* The whole queue over a store that can reject a transaction.
NextFaulty ==
    \/ EnableEncryption
    \/ EnqueueEvent(MaxEvents, BOOLEAN)
    \/ EnqueueCommitted
    \/ EnqueueFails
    \/ \E id \in RedactionTargets : EnqueueRedaction(MaxEvents, id)
    \/ RemoveEventCommitted
    \/ RemoveFails
    \/ ResumeSending
    \/ \E i \in 1..Len(loops) : ServerAccepts(i)
    \/ \E i \in 1..Len(loops), err \in Errors : StepFails(i, err)
    \/ \E i \in 1..Len(loops) : UploadReturns(i)
    \/ \E i \in 1..Len(loops) : EncryptReturns(i)
    \/ \E i \in 1..Len(loops) : UpdateCommitted(i)
    \/ \E i \in 1..Len(loops) : SendReturns(i)
    \/ \E i \in 1..Len(loops) : SentCommitted(i)
    \/ \E i \in 1..Len(loops) : SentFails(i)
    \/ \E i \in 1..Len(loops) : AbortCommitted(i)
    \/ \E i \in 1..Len(loops) : AbortFails(i)
    \/ \E events \in Batches : SyncStarts(events)
    \/ RemoveRemoteEchos
    \/ EmitRemovals

SpecFaulty == Init /\ [][NextFaulty]_vars

\* The queue without redactions over several sessions.
NextRestart ==
    \/ EnableEncryption
    \/ EnqueueEvent(MaxRecoveredEvents, BOOLEAN)
    \/ EnqueueCommitted
    \/ ResumeSending
    \/ \E i \in 1..Len(loops) : ServerAccepts(i)
    \/ \E i \in 1..Len(loops), err \in Errors : StepFails(i, err)
    \/ \E i \in 1..Len(loops) : UploadReturns(i)
    \/ \E i \in 1..Len(loops) : EncryptReturns(i)
    \/ \E i \in 1..Len(loops) : UpdateCommitted(i)
    \/ \E i \in 1..Len(loops) : SendReturns(i)
    \/ \E i \in 1..Len(loops) : SentCommitted(i)
    \/ \E i \in 1..Len(loops) : AbortCommitted(i)
    \/ \E events \in Batches : SyncStarts(events)
    \/ RemoveRemoteEchos
    \/ EmitRemovals
    \/ Restart

SpecRestart == Init /\ [][NextRestart]_vars

\* An upload, an encryption or a transmission returns or throws.
Responds ==
    \E i \in 1..Len(loops) :
        \/ UploadReturns(i)
        \/ EncryptReturns(i)
        \/ SendReturns(i)
        \/ \E err \in Errors : StepFails(i, err)

\* The oldest pending transaction runs: it commits or fails.
TxnRuns ==
    \/ EnqueueCommitted
    \/ EnqueueFails
    \/ RemoveRemoteEchos
    \/ \E i \in 1..Len(loops) :
          \/ UpdateCommitted(i)
          \/ SentCommitted(i)
          \/ SentFails(i)
          \/ AbortCommitted(i)
          \/ AbortFails(i)

\* The queue without redactions over a store that can reject a transaction;
\* every call the queue awaits returns.
NextLoop ==
    \/ EnableEncryption
    \/ EnqueueEvent(MaxEvents, BOOLEAN)
    \/ ResumeSending
    \/ \E i \in 1..Len(loops) : ServerAccepts(i)
    \/ Responds
    \/ TxnRuns
    \/ \E events \in Batches : SyncStarts(events)
    \/ EmitRemovals

SpecLoop == Init /\ [][NextLoop]_vars /\ WF_vars(Responds) /\ WF_vars(TxnRuns)

----------------------------------------------------------------------------
\* The GapTile and the room it fills from

\* The last MaxHistory tokens room.fillGap was called with.
Remember(tokens, token) ==
    LET all == Append(tokens, token)
    IN  IF Len(all) > MaxHistory THEN Tail(all) ELSE all

\* The test of fill that lets a fill start whatever _loading is.
canFillWhileLoading(t) == ~t.entry.edgeReached

\* The test of fill: no fill is running and the edge is not reached.
canFill(t) == ~t.loading /\ ~t.entry.edgeReached

\* fill that passes the entry the tile was constructed with.
fillStartsWithFirstEntry(t, by) ==
    /\ tile' = [t EXCEPT !.loading = TRUE]
    /\ fillGap' = Append(fillGap, [entry |-> FirstEntry, by |-> by])
    /\ filled' = Remember(filled, FirstEntry.token)

\* fill, its test passed, up to the await: _loading is set and room.fillGap
\* is called with the entry of the tile t, for the notifyVisible call by (0:
\* for a caller of fill).
fillStarts(t, by) ==
    /\ tile' = [t EXCEPT !.loading = TRUE]
    /\ fillGap' = Append(fillGap, [entry |-> t.entry, by |-> by])
    /\ filled' = Remember(filled, t.entry.token)

\* fill is called; it returns false at once if a fill is running or the edge
\* is reached.
Fill ==
    /\ IF canFill(tile)
       THEN fillStarts(tile, 0)
       ELSE UNCHANGED <<tile, fillGap, filled>>
    /\ UNCHANGED <<notifyVisible, queueVars, channelVars>>

\* notifyVisible is called: _siblingChanged is cleared and the first fill
\* made; if that returns false the loop ends.
NotifyVisible ==
    /\ \E n \in 1..MaxCalls : notifyVisible[n].pc = "idle"
    /\ LET n == CHOOSE m \in 1..MaxCalls :
                    /\ notifyVisible[m].pc = "idle"
                    /\ \A l \in 1..(m - 1) : notifyVisible[l].pc # "idle"
           t == [tile EXCEPT !.siblingChanged = FALSE]
       IN  IF canFill(t)
           THEN /\ fillStarts(t, n)
                /\ notifyVisible' = [notifyVisible EXCEPT
                                        ![n] = [depth |-> 0, pc |-> "fill", started |-> 1]]
           ELSE /\ tile' = t
                /\ UNCHANGED <<fillGap, filled, notifyVisible>>
    /\ UNCHANGED <<queueVars, channelVars>>

\* The timeline replaces the entry of the tile through updateEntry, as it
\* does while room.fillGap runs: the new entry has the next token; if it is
\* no gap any more updateEntry answers Remove and the timeline disposes the
\* tile.
UpdateEntry(edgeReached, isGap) ==
    /\ tile.entry.token < FirstToken + MaxUpdates
    /\ tile' = [tile EXCEPT !.entry = [token |-> tile.entry.token + 1,
                                       edgeReached |-> edgeReached, isGap |-> isGap],
                            !.isDisposed = tile.isDisposed \/ ~isGap]
    /\ UNCHANGED <<fillGap, notifyVisible, filled, queueVars, channelVars>>

\* updatePreviousSibling, updateNextSibling: a tile was added next to the gap.
UpdateSibling ==
    /\ tile' = [tile EXCEPT !.siblingChanged = TRUE]
    /\ UNCHANGED <<fillGap, notifyVisible, filled, queueVars, channelVars>>

\* The tile is disposed.
DisposeTile ==
    /\ ~tile.isDisposed
    /\ tile' = [tile EXCEPT !.isDisposed = TRUE]
    /\ UNCHANGED <<fillGap, notifyVisible, filled, queueVars, channelVars>>

\* room.fillGap returns: the finally block clears _loading and fill returns
\* true to its caller.
FillGapReturns(k) ==
    /\ k \in 1..Len(fillGap)
    /\ tile' = [tile EXCEPT !.loading = FALSE]
    /\ fillGap' = RemoveAt(fillGap, k)
    /\ notifyVisible' = IF fillGap[k].by = 0 THEN notifyVisible
                        ELSE [notifyVisible EXCEPT ![fillGap[k].by].pc = "next"]
    /\ UNCHANGED <<filled, queueVars, channelVars>>

\* room.fillGap throws: the error is kept, the finally block clears _loading
\* and fill rethrows, which ends the notifyVisible call that made it.
FillGapFails(k) ==
    /\ k \in 1..Len(fillGap)
    /\ tile' = [tile EXCEPT !.loading = FALSE, !.error = TRUE]
    /\ fillGap' = RemoveAt(fillGap, k)
    /\ notifyVisible' = IF fillGap[k].by = 0 THEN notifyVisible
                        ELSE [notifyVisible EXCEPT ![fillGap[k].by] = NotRunning]
    /\ UNCHANGED <<filled, queueVars, channelVars>>

\* The do-while of notifyVisible after a fill that returned true: depth is
\* counted and, if the condition holds, fill is called again; a fill that
\* returns false ends the loop.
VisibleContinues(n) ==
    /\ n \in 1..MaxCalls
    /\ notifyVisible[n].pc = "next"
    /\ LET depth == notifyVisible[n].depth + 1
       IN  IF depth < MaxDepth /\ ~tile.siblingChanged /\ ~tile.isDisposed
              /\ canFill(tile)
           THEN /\ fillStarts(tile, n)
                /\ notifyVisible' = [notifyVisible EXCEPT
                        ![n] = [depth |-> depth, pc |-> "fill",
                                started |-> notifyVisible[n].started + 1]]
           ELSE /\ notifyVisible' = [notifyVisible EXCEPT ![n] = NotRunning]
                /\ UNCHANGED <<tile, fillGap, filled>>
    /\ UNCHANGED <<queueVars, channelVars>>

NextTile ==
    \/ Fill
    \/ NotifyVisible
    \/ \E edgeReached, isGap \in BOOLEAN : UpdateEntry(edgeReached, isGap)
    \/ UpdateSibling
    \/ DisposeTile
    \/ \E k \in 1..Len(fillGap) : FillGapReturns(k)
    \/ \E k \in 1..Len(fillGap) : FillGapFails(k)
    \/ \E n \in 1..MaxCalls : VisibleContinues(n)

SpecTile == Init /\ [][NextTile]_vars

----------------------------------------------------------------------------
\* The ToDeviceChannel, the homeserver and the DeviceMessageHandler

\* The messages a channel is constructed with: none, or the request or start
\* message of the other device.
StartingMessages ==
    {NoMessage} \cup
    [type : {VerificationEventTypes.Request, VerificationEventTypes.Start},
     transaction_id : TxnIds, from_device : Devices]

\* The to-device messages the DeviceMessageHandler delivers.
DeviceMessages ==
    [type : {VerificationEventTypes.Ready, VerificationEventTypes.Start,
             VerificationEventTypes.Key, VerificationEventTypes.Cancel,
             "m.room_key"},
     transaction_id : TxnIds, from_device : Devices]

\* The event types send and waitForEvent are called with.
SentTypes == {VerificationEventTypes.Start, VerificationEventTypes.Key}
WaitedTypes == {VerificationEventTypes.Ready, VerificationEventTypes.Key}

InitStarted == InitQueue /\ InitTile /\ \E m \in StartingMessages : InitChannel(m)

\* Disposables.dispose: the subscription to the DeviceMessageHandler ends and
\* the waits are rejected; the waitMap keeps its entries.
dispose(c) == [c EXCEPT !.isDisposed = TRUE]

\* The hsApi.sendToDevice request of cancelVerification.
cancelRequest(c, cancellationType) ==
    [type |-> VerificationEventTypes.Cancel, code |-> cancellationType,
     transaction_id |-> c.id, to |-> {c.otherUserDeviceId}, then |-> "cancelled"]

\* send of a request: handleRequestEventSpecially makes the id of the channel
\* and sends to every device of the other user.
HandleRequestEventSpecially ==
    /\ ~channel.isCancelled
    /\ Len(sendToDevice) < MaxRequests
    /\ \E txnId \in TxnIds :
          /\ channel' = [channel EXCEPT !.id = txnId]
          /\ sendToDevice' = Append(sendToDevice,
                [type |-> VerificationEventTypes.Request, code |-> "",
                 transaction_id |-> txnId, to |-> Devices, then |-> "sent"])
    /\ UNCHANGED <<inbox, queueVars, tileVars>>

\* send of any other type: the content gets the id of the channel and goes
\* to the device of the other user.
Send(eventType) ==
    /\ ~channel.isCancelled
    /\ Len(sendToDevice) < MaxRequests
    /\ sendToDevice' = Append(sendToDevice,
          [type |-> eventType, code |-> "", transaction_id |-> channel.id,
           to |-> {channel.otherUserDeviceId}, then |-> "sent"])
    /\ UNCHANGED <<channel, inbox, queueVars, tileVars>>

\* handleDeviceMessage with a message that is no verification message.
handleOther(event) ==
    /\ inbox' = <<[type |-> event.type, transaction_id |-> event.transaction_id,
                   id |-> channel.id, cancels |-> FALSE, recorded |-> FALSE]>>
    /\ UNCHANGED <<channel, sendToDevice>>

\* handleDeviceMessage with a transaction id that is not the id of the
\* channel: cancelVerification, which throws if the channel is cancelled.
handleUnknownTransaction(event) ==
    /\ inbox' = <<[type |-> event.type, transaction_id |-> event.transaction_id,
                   id |-> channel.id, cancels |-> ~channel.isCancelled,
                   recorded |-> FALSE]>>
    /\ sendToDevice' =
          IF channel.isCancelled THEN sendToDevice
          ELSE Append(sendToDevice, cancelRequest(channel, CancelTypes.UnknownTransaction))
    /\ UNCHANGED channel

\* handleDeviceMessage with the transaction id of the channel: the wait for
\* the type is resolved and the message recorded; a ready message makes
\* handleReadyMessage cancel the request on the other devices, a cancel
\* message cancels and disposes the channel.
handleKnownTransaction(event) ==
    LET recorded == [channel EXCEPT !.waitMap = @ \ {event.type},
                                   !.receivedMessages = @ \cup {event.type}]
    IN  /\ inbox' = <<[type |-> event.type, transaction_id |-> event.transaction_id,
                       id |-> channel.id, cancels |-> FALSE, recorded |-> TRUE]>>
        /\ channel' =
              IF event.type = VerificationEventTypes.Ready
              THEN [recorded EXCEPT !.otherUserDeviceId = event.from_device]
              ELSE IF event.type = VerificationEventTypes.Cancel
              THEN dispose([recorded EXCEPT !.isCancelled = TRUE])
              ELSE recorded
        /\ sendToDevice' =
              IF event.type = VerificationEventTypes.Ready
              THEN Append(sendToDevice,
                     [type |-> VerificationEventTypes.Cancel,
                      code |-> CancelTypes.OtherDeviceAccepted,
                      transaction_id |-> channel.id,
                      to |-> Devices \ {event.from_device}, then |-> "none"])
              ELSE sendToDevice

\* The handler the constructor subscribes, until the channel is disposed.
HandleDeviceMessage(event) ==
    /\ ~channel.isDisposed
    /\ Len(sendToDevice) < MaxRequests
    /\ IF ~startsWithVerification(event.type) THEN handleOther(event)
       ELSE IF event.transaction_id # channel.id THEN handleUnknownTransaction(event)
       ELSE handleKnownTransaction(event)
    /\ UNCHANGED <<queueVars, tileVars>>

\* cancelVerification called by the verification stages.
CancelVerification(cancellationType) ==
    /\ ~channel.isCancelled
    /\ Len(sendToDevice) < MaxRequests
    /\ sendToDevice' = Append(sendToDevice, cancelRequest(channel, cancellationType))
    /\ UNCHANGED <<channel, inbox, queueVars, tileVars>>

\* waitForEvent for a type that was not received and is not waited for.
WaitForEvent(eventType) ==
    /\ ~channel.isCancelled
    /\ eventType \notin channel.receivedMessages
    /\ eventType \notin channel.waitMap
    /\ channel' = [channel EXCEPT !.waitMap = @ \cup {eventType}]
    /\ UNCHANGED <<sendToDevice, inbox, queueVars, tileVars>>

\* The homeserver answers a request: send records the message as sent,
\* cancelVerification cancels and disposes the channel.
SendToDeviceResponds(k) ==
    /\ k \in 1..Len(sendToDevice)
    /\ sendToDevice' = RemoveAt(sendToDevice, k)
    /\ channel' =
          IF sendToDevice[k].then = "sent"
          THEN [channel EXCEPT !.sentMessages = @ \cup {sendToDevice[k].type}]
          ELSE IF sendToDevice[k].then = "cancelled"
          THEN dispose([channel EXCEPT !.isCancelled = TRUE])
          ELSE channel
    /\ UNCHANGED <<inbox, queueVars, tileVars>>

\* A request fails: the caller throws and nothing is recorded.
SendToDeviceFails(k) ==
    /\ k \in 1..Len(sendToDevice)
    /\ sendToDevice' = RemoveAt(sendToDevice, k)
    /\ UNCHANGED <<channel, inbox, queueVars, tileVars>>

NextChannel ==
    \/ HandleRequestEventSpecially
    \/ \E eventType \in SentTypes : Send(eventType)
    \/ \E event \in DeviceMessages : HandleDeviceMessage(event)
    \/ CancelVerification(CancelTypes.UserCancelled)
    \/ \E eventType \in WaitedTypes : WaitForEvent(eventType)
    \/ \E k \in 1..Len(sendToDevice) : SendToDeviceResponds(k)
    \/ \E k \in 1..Len(sendToDevice) : SendToDeviceFails(k)

SpecChannel == InitStarted /\ [][NextChannel]_vars

----------------------------------------------------------------------------
\* Properties

\* The events a loop has handed to the transport and awaits the response of.
InTransit(lps) == {lps[i].cur : i \in {j \in 1..Len(lps) : lps[j].pc = "send"}}

\* The step calls the transport for event t.
Called(t) == t \in InTransit(loops') \ InTransit(loops)

\* The events of the collection.
InCollection(arr) == {arr[i] : i \in 1..Len(arr)}

\* C1: every queue index an enqueue assigns is greater than every queue index
\* assigned before it; no index is given twice, also after the record with the
\* highest index has been removed from the store.
C1_QueueIndexIncreasing ==
    \A s, t \in Created : s < t => QueueIndexOf(pe, s) < QueueIndexOf(pe, t)

\* C2: the transport is never called for an event b while the collection holds
\* an event a of lower queue index that has no remoteId and whose _sendEvent
\* has not yet run to its end.
C2_AscendingOrder ==
    [][\A b \in Created : Called(b) =>
          ~ \E a \in InCollection(pendingEvents') :
                /\ QueueIndexOf(pe', a) < QueueIndexOf(pe', b)
                /\ pe'[a].data.remoteId = Undefined
                /\ ~pe'[a].tried]_vars

\* C3: at most one send loop runs, and at most one event is in transmission.
C3_OneLoopOneTransmission ==
    /\ Len(loops) <= 1
    /\ Cardinality({i \in 1..Len(loops) : loops[i].pc = "send"}) <= 1
    /\ Cardinality({t \in Created : pe[t].status = "Sending" /\ t \in InTransit(loops)}) <= 1

\* C3 witness: a loop is transmitting an event while an enqueue and a second
\* event of the collection wait.
C3_Witness ==
    /\ Len(loops) = 1
    /\ loops[1].pc = "send"
    /\ isSending
    /\ Len(pendingEvents) >= 2
    /\ \E t \in InCollection(pendingEvents) : t # loops[1].cur /\ needsSending(pe[t])

\* C4: the transport is never called for an event that has a remoteId, and no
\* event is transmitted successfully more than once.
C4_SentOnce ==
    [][\A t \in Created :
          /\ pe[t].data.remoteId # Undefined => ~Called(t)
          /\ pe'[t].delivered <= 1]_vars

\* C4 witness: a loop started after event a got its remoteId passes a, still
\* in the collection, and transmits b for the second time.
C4_Witness ==
    \E a, b \in InCollection(pendingEvents) :
        /\ QueueIndexOf(pe, a) < QueueIndexOf(pe, b)
        /\ pe[a].data.remoteId # Undefined
        /\ pe[b].tried
        /\ b \in InTransit(loops)

\* The error of a lost connection.
ConnectionError == [name |-> "ConnectionError", statusCode |-> 0]

\* The loops that wait for an upload, an encryption or a transmission.
Working(lps) == {i \in 1..Len(lps) : lps[i].pc \in {"upload", "encrypt", "send"}}

\* C5: when a step of an event fails with a connectivity error the queue is
\* offline, the event is Waiting and still in the collection and the store,
\* and the loop pauses: it starts no upload, encryption or transmission.
C5_ConnectionErrorPauses ==
    [][\A i \in 1..Len(loops) : StepFails(i, ConnectionError) =>
          LET t == loops[i].cur
          IN  /\ offline'
              /\ t \in InCollection(pendingEvents) =>
                    /\ t \in InCollection(pendingEvents')
                    /\ pe'[t].status = "Waiting"
              /\ storeExists(store, QueueIndexOf(pe, t)) =>
                    storeExists(store', QueueIndexOf(pe, t))
              /\ Working(loops') = {}]_vars

\* Nothing is in flight: no loop runs, no transaction is pending, no list
\* awaits emitRemovals.
Quiescent == loops = <<>> /\ txns = <<>> /\ echoRemoved = <<>>

\* C6: once resumeSending has cleared offline after a connectivity failure,
\* every event without a remoteId gets one if calls return and succeed; so the
\* queue never comes to rest online, every other event of the collection
\* sent, with an event that a connectivity failure left Waiting and that no
\* loop will send.
C6_ResumeSendsAll ==
    ~ /\ Quiescent
      /\ ~offline
      /\ \E t \in InCollection(pendingEvents) :
            /\ pe[t].status = "Waiting"
            /\ pe[t].tried
            /\ pe[t].data.remoteId = Undefined
            /\ InCollection(pendingEvents) # {t}
            /\ \A u \in InCollection(pendingEvents) \ {t} :
                  pe[u].data.remoteId # Undefined

\* C7: when the removal after a rejection with status 400, 403 or 404 has
\* committed, the event is in neither the store nor the collection and
\* offline is as it was.
C7_RejectedEventRemoved ==
    [][\A i \in 1..Len(loops) : AbortCommitted(i) =>
          LET t == loops[i].cur
          IN  /\ t \notin InCollection(pendingEvents')
              /\ \A q \in DOMAIN store' : store'[q].txnId # pe[t].data.txnId
              /\ offline' = offline]_vars

\* The step starts an upload, an encryption or a transmission of event t.
Started(t) ==
    \E i \in Working(loops') :
        /\ loops'[i].cur = t
        /\ ~ \E j \in Working(loops) : loops[j] = loops'[i]

\* C8: an event parked with status Error stays as it is: no loop starts an
\* upload, an encryption or a transmission of it.
C8_ErrorNotRetried ==
    [][\A t \in Created : pe[t].status = "Error" => ~Started(t)]_vars

\* C9: in the store, whenever the record of an event A carries a remoteId,
\* every record of an event of the collection whose relatedTxnId is A's
\* txnId carries that id as relatedEventId.
C9_RelationsResolvedWithRemoteId ==
    \A qa, qb \in DOMAIN store :
        /\ store[qa].remoteId # Undefined
        /\ store[qb].relatedTxnId = store[qa].txnId
        /\ store[qb].txnId \in InCollection(pendingEvents)
        => store[qb].relatedEventId = store[qa].remoteId

\* The remote id of event a is known to the queue.
Known(a) == pe[a].data.remoteId # Undefined \/ pe[a].echoed

\* C10: with nothing in flight, every event of the collection related to an
\* event whose remote id is known carries that id as relatedEventId.
C10_RelationsResolvedAtRest ==
    Quiescent =>
        \A b \in InCollection(pendingEvents) : \A a \in Created :
            pe[b].data.relatedTxnId = pe[a].data.txnId /\ Known(a)
            => pe[b].data.relatedEventId = EventIdOf(a)

\* C11: when the removal that enqueueRedaction by txnId asked for commits and
\* its target is Waiting and was never attempted, the target is in neither
\* the store nor the collection, no record and no event was added, and the
\* target has not been handed to the transport.
C11_WaitingTargetAborted ==
    [][RemoveEventCommitted /\ pe[Head(txns).pe].status = "Waiting"
                            /\ ~pe[Head(txns).pe].tried =>
          LET t == Head(txns).pe
          IN  /\ t \notin InCollection(pendingEvents')
              /\ \A q \in DOMAIN store' : store'[q].txnId # pe[t].data.txnId
              /\ DOMAIN store' \subseteq DOMAIN store
              /\ InCollection(pendingEvents') \subseteq InCollection(pendingEvents)
              /\ Len(pe') = Len(pe)
              /\ ~pe[t].accepted /\ t \notin InTransit(loops')]_vars

\* The position in the collection of the pending event the id names: by txnId
\* for a txn id, by remoteId for an event id; 0 if there is none.
TargetOf(id) ==
    IF isTxnId(id) THEN FindByTxnId(pendingEvents, pe, id)
    ELSE FindByRemoteId(pendingEvents, pe, id)

C13_GoneTargetNoOp ==
    [][\A t \in Created : \A id \in {t, EventIdOf(t)} \cap RedactionTargets :
          (EnqueueRedaction(MaxEvents, id) /\ t \notin InCollection(pendingEvents))
          => UNCHANGED vars]_vars

\* C13 as amended: for an event no longer in the collection, enqueueRedaction
\* by txn id changes nothing, and enqueueRedaction by event id enqueues one
\* redaction with relatedEventId = the id and relatedTxnId unset, and changes
\* nothing else.
C13_GoneTargetByTxnIdNoOp ==
    [][\A t \in Created :
          /\ (EnqueueRedaction(MaxEvents, t) /\ t \notin InCollection(pendingEvents))
             => UNCHANGED vars
          /\ (/\ EventIdOf(t) \in RedactionTargets
              /\ EnqueueRedaction(MaxEvents, EventIdOf(t))
              /\ t \notin InCollection(pendingEvents))
             => /\ txns' = Append(txns, [op |-> "enqueue", pe |-> 0, arg |->
                                [redaction |-> TRUE, relatedTxnId |-> Undefined,
                                 relatedEventId |-> EventIdOf(t),
                                 attachments |-> FALSE]])
                /\ UNCHANGED <<pe, store, pendingEvents, isSending, offline,
                               loops, echoRemoved>>]_vars

\* C13 witness: a redaction by event id of an event that the echo has removed
\* from the collection waits for its transaction.
C13_Witness ==
    \E t \in Created, k \in 1..Len(txns) :
        /\ t \notin InCollection(pendingEvents)
        /\ pe[t].echoed
        /\ txns[k].op = "enqueue"
        /\ txns[k].arg.redaction
        /\ txns[k].arg.relatedTxnId = Undefined
        /\ txns[k].arg.relatedEventId = EventIdOf(t)

\* The store holds a record of event t.
Stored(st, t) == \E q \in DOMAIN st : st[q].txnId = t

\* C14: when removeRemoteEchos returns, every pending event it matched is in
\* neither the store nor the collection.
C14_EchoRemovesOnReturn ==
    [][RemoveRemoteEchos =>
          \A k \in 1..Len(echoRemoved') :
              /\ ~Stored(store', echoRemoved'[k])
              /\ echoRemoved'[k] \notin InCollection(pendingEvents')]_vars

\* C14 as amended: when removeRemoteEchos returns, the record of every pending
\* event it matched is gone from the store; the event leaves the collection
\* when emitRemovals runs with the list removeRemoteEchos returned.
C14_EchoRemovesThenEmit ==
    [][/\ RemoveRemoteEchos =>
             \A k \in 1..Len(echoRemoved') : ~Stored(store', echoRemoved'[k])
       /\ EmitRemovals =>
             \A k \in 1..Len(echoRemoved) :
                 echoRemoved[k] \notin InCollection(pendingEvents')]_vars

\* C14 witness: removeRemoteEchos has returned an event whose record is gone
\* and which is still in the collection, emitRemovals not yet called.
C14_Witness ==
    \E k \in 1..Len(echoRemoved) :
        /\ echoRemoved[k] \in InCollection(pendingEvents)
        /\ ~Stored(store, echoRemoved[k])
        /\ pe[echoRemoved[k]].echoed

\* C15: when removeRemoteEchos processes the echo, carrying the txnId, of an
\* event A of the collection that is being transmitted and has no remoteId,
\* then in that transaction A's record is removed and every event of the
\* collection whose relatedTxnId is A's txnId has the echo's event id as
\* relatedEventId, in memory and in its record.
C15_EchoResolvesRelations ==
    [][RemoveRemoteEchos =>
          \A k \in 1..Len(Head(txns).arg) :
              LET a == Head(txns).arg[k].transaction_id
                  r == Head(txns).arg[k].event_id
              IN  (/\ a \in InCollection(pendingEvents)
                   /\ pe[a].data.remoteId = Undefined
                   /\ a \in InTransit(loops))
                  => /\ ~Stored(store', a)
                     /\ \A b \in InCollection(pendingEvents) :
                           pe[b].data.relatedTxnId = pe[a].data.txnId
                           => /\ pe'[b].data.relatedEventId = r
                              /\ \A q \in DOMAIN store' :
                                    store'[q].txnId = b
                                    => store'[q].relatedEventId = r]_vars

\* C15 witness: the echo of an event in transmission has been processed and a
\* redaction of the collection that was enqueued with its txnId alone carries
\* the event id, in memory and in the store.
C15_Witness ==
    \E a, b \in InCollection(pendingEvents) :
        /\ \E k \in 1..Len(echoRemoved) : echoRemoved[k] = a
        /\ a \in InTransit(loops)
        /\ pe[a].data.remoteId = Undefined
        /\ pe[b].data.relatedTxnId = pe[a].data.txnId
        /\ pe[b].data.relatedEventId = EventIdOf(a)
        /\ \E q \in DOMAIN store :
              store[q].txnId = b /\ store[q].relatedEventId = EventIdOf(a)

\* C16: an event joins the collection only in a step that leaves its record
\* in the store, the commit of the transaction of its enqueue; when that
\* transaction fails the collection, the store and the events are as before
\* and no loop is started.
C16_EnqueueAfterCommit ==
    [][/\ \A t \in InCollection(pendingEvents') \ InCollection(pendingEvents) :
             /\ EnqueueCommitted
             /\ Stored(store', t)
             /\ t \notin Created
       /\ EnqueueFails =>
             /\ pendingEvents' = pendingEvents
             /\ store' = store
             /\ pe' = pe
             /\ loops' = loops
             /\ isSending' = isSending]_vars

\* C16 witness: with an event in the collection and the store, no loop
\* running and the queue online, the transaction of a further enqueue is the
\* next to run.
C16_Witness ==
    /\ Active("enqueue", 0)
    /\ ~isSending
    /\ ~offline
    /\ loops = <<>>
    /\ \E t \in InCollection(pendingEvents) : Stored(store, t)

\* C17: when the transaction that persists the remoteId of a transmitted event
\* of the collection fails, the store is as before, the event carries no
\* remoteId in memory or in the store, and no event of the collection has its
\* relatedEventId changed.
C17_FailedPersistLeavesNoTrace ==
    [][\A i \in 1..Len(loops) :
          (SentFails(i) /\ loops[i].cur \in InCollection(pendingEvents))
          => LET t == loops[i].cur
             IN  /\ store' = store
                 /\ \A q \in DOMAIN store' :
                       store'[q].txnId = t => store'[q].remoteId = Undefined
                 /\ pe'[t].data.remoteId = Undefined
                 /\ \A b \in InCollection(pendingEvents) :
                       pe'[b].data.relatedEventId = pe[b].data.relatedEventId]_vars

\* C18: the commit of an enqueue starts a loop exactly when none runs and the
\* queue is online; for an event that joined the collection while the queue
\* was offline no upload, encryption or transmission starts before
\* resumeSending is called.
C18_LoopStartedWhenIdleAndOnline ==
    [][/\ EnqueueCommitted =>
             /\ Len(loops') > Len(loops) <=> (~isSending /\ ~offline)
             /\ Len(pe') \in InCollection(pendingEvents')
             /\ Stored(store', Len(pe'))
       /\ \A t \in Created :
             pe[t].heldOffline /\ pe'[t].heldOffline => ~Started(t)]_vars

\* No record has been removed from the store: every event enqueued so far has
\* its record.
NoRemovals(peV, st) == \A t \in 1..Len(peV) : Stored(st, t)

\* C19: as long as no record has been removed, the k-th enqueue has queue
\* index k, and the transport is called for an event only when every event
\* of lower queue index in the collection has a remoteId or has been
\* attempted.
C19_QueueIndexIsEnqueueOrder ==
    [][NoRemovals(pe', store') =>
          /\ \A t \in 1..Len(pe') : QueueIndexOf(pe', t) = t
          /\ \A b \in Created : Called(b) =>
                \A a \in InCollection(pendingEvents') :
                    QueueIndexOf(pe', a) < QueueIndexOf(pe', b)
                    => pe'[a].data.remoteId # Undefined \/ pe'[a].tried]_vars

\* C19 witness: three enqueues, no removal, queue indexes 1, 2, 3; the first
\* two events have been sent and the loop is transmitting the third.
C19_Witness ==
    /\ Len(pe) = MaxPlainEvents
    /\ NoRemovals(pe, store)
    /\ \A t \in Created : QueueIndexOf(pe, t) = t
    /\ \A t \in 1..(Len(pe) - 1) : pe[t].data.remoteId # Undefined
    /\ Len(pe) \in InTransit(loops)

\* C20: dispose leaves the store as it is, and the queue the next session
\* builds from the store holds exactly the events of its records, each with
\* the data of its record, in queueIndex order.
C20_DisposeKeepsRecords ==
    [][Restart =>
          /\ store' = store
          /\ Len(pendingEvents') = Cardinality(DOMAIN store)
          /\ \A q \in DOMAIN store :
                \E i \in 1..Len(pendingEvents') :
                    pe'[pendingEvents'[i]].data = store[q]
          /\ \A i, j \in 1..Len(pendingEvents') :
                i < j => QueueIndexOf(pe', pendingEvents'[i])
                            < QueueIndexOf(pe', pendingEvents'[j])]_vars

\* C20 witness: a session built from the store holds an event whose record
\* carries the remoteId persisted in the session before, and a second event.
C20_Witness ==
    /\ Len(pendingEvents) >= 2
    /\ \E t \in InCollection(pendingEvents) :
          /\ pe[t].status = "Waiting"
          /\ pe[t].data.remoteId # Undefined
          /\ Stored(store, t)

\* C21: when a loop ends with the queue online, the collection holds no event
\* that joined it while the queue was online, is Waiting without a remoteId
\* and was never attempted.
C21_LoopLeavesNoneUnattempted ==
    [][(loops # <<>> /\ loops' = <<>> /\ ~offline') =>
          \A t \in InCollection(pendingEvents') :
              ~ /\ pe'[t].status = "Waiting"
                /\ ~pe'[t].tried
                /\ pe'[t].data.remoteId = Undefined
                /\ ~pe'[t].heldOffline]_vars

\* C22: _isSending is true exactly while a loop executes, also after an
\* exception has left the loop, and every loop that was started ends.
C22_LoopEndsAndClearsFlag ==
    /\ [](isSending <=> loops # <<>>)
    /\ (isSending ~> ~isSending)

\* C22 witness: the removal transaction of a rejected event has failed; the
\* event is still in the collection and the store, no loop runs and
\* _isSending is false.
C22_Witness ==
    /\ ~isSending
    /\ loops = <<>>
    /\ \E t \in InCollection(pendingEvents) :
          pe[t].status = "Sending" /\ pe[t].tried /\ Stored(store, t)

\* The statuses an event can be in before the step named has been done.
BeforeUpload == {"Waiting", "Error", "UploadingAttachments"}

BeforeEncryption == BeforeUpload \cup {"Encrypting"}

\* C23: an event is uploaded, then encrypted, then transmitted: it enters UploadingAttachments only while it needs an upload and before any later step, Encrypting only while it needs encryption and after its upload, Sending only with both flags cleared, and it gets its remoteId in status Sending.
C23_StepsInOrder ==
    /\ [](\A t \in Created :
             /\ needsUpload(pe[t]) => pe[t].status \in BeforeUpload
             /\ needsEncryption(pe[t]) => pe[t].status \in BeforeEncryption
             /\ pe[t].status = "Sending" => needsSending(pe[t]))
    /\ [][\A t \in Created :
             /\ (pe'[t].status = "UploadingAttachments" /\ pe[t].status # "UploadingAttachments")
                   => needsUpload(pe[t]) /\ pe[t].status \in {"Waiting", "Error"}
             /\ (pe'[t].status = "Encrypting" /\ pe[t].status # "Encrypting")
                   => /\ needsEncryption(pe[t]) /\ ~needsUpload(pe[t])
                      /\ pe[t].status \in BeforeUpload
             /\ (pe'[t].status = "Sending" /\ pe[t].status # "Sending")
                   => /\ ~needsUpload(pe[t]) /\ ~needsEncryption(pe[t])
                      /\ needsSending(pe[t]) /\ pe[t].status \in BeforeEncryption
             /\ (pe'[t].data.remoteId # pe[t].data.remoteId /\ pe[t].status # "Collected"
                    /\ pe'[t].status # "Collected")
                   => pe[t].status = "Sending" /\ pe[t].data.remoteId = Undefined]_vars

\* An event that needs both steps has been uploaded and is not yet encrypting.
C23_Witness ==
    \E i \in 1..Len(loops) :
        /\ loops[i].pc = "uploadTxn"
        /\ pe[loops[i].cur].status = "UploadingAttachments"
        /\ ~needsUpload(pe[loops[i].cur])
        /\ needsEncryption(pe[loops[i].cur])

\* C24: the removal transaction of a redaction does not take an event out of the store or the collection while the transport call for that event is in flight.
C24_TransmittingNotRemoved ==
    [][\A t \in Created :
          (/\ txns # <<>> /\ Head(txns).op = "remove" /\ Head(txns).pe = t
           /\ txns' = Tail(txns)
           /\ pe[t].status = "Sending" /\ t \in InTransit(loops)
           /\ t \in InCollection(pendingEvents) /\ Stored(store, t))
          => t \in InCollection(pendingEvents') /\ Stored(store', t)]_vars

\* The pending events of the collection a server event matches: the one with
\* its transaction id if it carries one, else the one with its event id.
EchoMatch(event) ==
    {t \in InCollection(pendingEvents) :
        IF event.transaction_id # Undefined
        THEN pe[t].data.txnId = event.transaction_id
        ELSE pe[t].data.remoteId = event.event_id}

\* C25: removeRemoteEchos matches a server event to at most one pending event, by txnId if the event carries a transaction id and by remoteId otherwise; it returns exactly the matched events, one per matching server event in their order, and a call in which nothing matches changes neither the store nor the list.
C25_EchoMatching ==
    [][(txns # <<>> /\ Head(txns).op = "sync" /\ txns' = Tail(txns)) =>
          LET events == Head(txns).arg
              matching == SelectSeq(events, LAMBDA e : EchoMatch(e) # {})
          IN  /\ \A k \in 1..Len(events) : Cardinality(EchoMatch(events[k])) <= 1
              /\ Len(echoRemoved') = Len(matching)
              /\ \A k \in 1..Len(matching) : echoRemoved'[k] \in EchoMatch(matching[k])
              /\ \A j, k \in 1..Len(matching) :
                     echoRemoved'[j] = echoRemoved'[k] => j = k
              /\ matching = <<>> => store' = store /\ echoRemoved' = <<>>]_vars

\* A call returned two events, one of them matched by its txnId before it
\* had a remoteId.
C25_Witness ==
    /\ Len(echoRemoved) = 2
    /\ \E i \in 1..2 : pe[echoRemoved[i]].data.remoteId = Undefined

\* C26: when the transaction of _removeEvent ends and the record of the aborted event is still in the store, the event is still in the collection, which the step left as it was; if the loop had called abort, the error leaves the loop.
C26_FailedRemovalKeepsEvent ==
    [][\A t \in Created :
          (/\ txns # <<>> /\ Head(txns).op \in {"remove", "abort"} /\ Head(txns).pe = t
           /\ txns' = Tail(txns)
           /\ Stored(store', t))
          => /\ t \in InCollection(pendingEvents')
             /\ pendingEvents' = pendingEvents
             /\ store' = store
             /\ Head(txns).op = "abort" => Len(loops') < Len(loops) /\ ~isSending']_vars

\* C27: whenever no loop runs, no transaction is pending and no list awaits emitRemovals, the collection and the store hold the same events: the same pairs of queueIndex and txnId.
C27_CollectionMatchesStore ==
    Quiescent =>
        {<<QueueIndexOf(pe, t), pe[t].data.txnId>> : t \in InCollection(pendingEvents)}
          = {<<q, store[q].txnId>> : q \in DOMAIN store}

\* C28: an event is created with needsEncryption true exactly if it is no redaction and the encryption context is set at that moment; the flag of an existing event never becomes true, an event enters Encrypting only with the flag set, and the encryption collaborator is never called for a redaction.
C28_EncryptionFixedAtEnqueue ==
    /\ [](\A i \in 1..Len(loops) :
             loops[i].pc \in {"encrypt", "encryptTxn"} => ~pe[loops[i].cur].data.redaction)
    /\ [][/\ Len(pe') = Len(pe) + 1 =>
               \/ pe'[Len(pe')].status = "Collected"
               \/ (pe'[Len(pe')].data.needsEncryption \/ pe'[Len(pe')].status = "Encrypting")
                     <=> (~pe'[Len(pe')].data.redaction /\ roomEncryption)
          /\ \A t \in Created :
               /\ ~needsEncryption(pe[t]) => ~needsEncryption(pe'[t])
               /\ (pe'[t].status = "Encrypting" /\ pe[t].status # "Encrypting")
                     => needsEncryption(pe[t])]_vars

\* The encryption context has been set after an event was enqueued that no
\* loop has attempted yet: its flag is still false.
C28_Witness ==
    /\ roomEncryption
    /\ \E t \in InCollection(pendingEvents) :
          /\ ~pe[t].data.redaction /\ ~needsEncryption(pe[t])
          /\ pe[t].status = "Waiting" /\ ~pe[t].tried
          /\ pe[t].data.remoteId = Undefined

\* The recovered events of the collection arr that still wait for their
\* first attempt of this session.
RecoveredUnsent(peV, arr) ==
    {t \in InCollection(arr) : /\ peV[t].recovered /\ ~peV[t].tried
                               /\ peV[t].data.remoteId = Undefined
                               /\ peV[t].status = "Waiting"}

\* C29: the constructor builds the collection from exactly the records of the store, in queueIndex order, and starts no loop; resumeSending then starts the loop if a recovered event waits, the transport is called for a recovered event only if it has no remoteId and no recovered event of lower queueIndex still waits, and the loop does not end online with a recovered event waiting.
C29_RecoveredEventsSent ==
    /\ [][Restart =>
             /\ loops' = <<>> /\ ~isSending'
             /\ pendingEvents' = [i \in 1..Cardinality(DOMAIN store) |->
                                     store[SortedKeys(DOMAIN store)[i]].txnId]
             /\ \A t \in InCollection(pendingEvents') :
                    pe'[t].recovered /\ pe'[t].data = store[QueueIndexOf(pe', t)]]_vars
    /\ [][ResumeSending =>
             ((RecoveredUnsent(pe, pendingEvents) # {} /\ loops = <<>>) =>
                 \/ loops' # <<>>
                 \/ RecoveredUnsent(pe', pendingEvents') = {})]_vars
    /\ [][\A b \in Created : (Called(b) /\ pe[b].recovered) =>
             /\ pe[b].data.remoteId = Undefined
             /\ \A a \in RecoveredUnsent(pe', pendingEvents') :
                    QueueIndexOf(pe', a) > QueueIndexOf(pe', b)]_vars
    /\ [][(loops # <<>> /\ loops' = <<>> /\ isSending /\ ~offline' /\ ~Restart) =>
             RecoveredUnsent(pe', pendingEvents') = {}]_vars

\* After a restart the loop transmits a recovered event while a recovered
\* event of lower queueIndex, whose remoteId was persisted, stays as it is.
C29_Witness ==
    \E i \in 1..Len(loops), a \in InCollection(pendingEvents) :
        /\ loops[i].pc = "send"
        /\ pe[loops[i].cur].recovered
        /\ pe[a].recovered /\ pe[a].status = "Waiting" /\ ~pe[a].tried
        /\ pe[a].data.remoteId # Undefined
        /\ QueueIndexOf(pe, a) < QueueIndexOf(pe, loops[i].cur)

\* C30: the transport is never called for an event whose relatedTxnId is set while its relatedEventId is not.
C30_NoUnresolvedRelationSent ==
    [][\A b \in Created : Called(b) =>
          ~ /\ pe'[b].data.relatedTxnId \notin {Null, Undefined}
            /\ pe'[b].data.relatedEventId \in {Null, Undefined}]_vars

\* C31: the transport is never called for an event that enqueueRedaction has aborted: not while the removal it started is pending, and not after it has taken the event out of the collection.
C31_AbortedNotTransmitted ==
    [][\A b \in Created : Called(b) =>
          /\ \A k \in 1..Len(txns') : ~(txns'[k].op = "remove" /\ txns'[k].pe = b)
          /\ b \in InCollection(pendingEvents')]_vars

\* C32: a transaction in which the loop persists an event creates no record, and every record it leaves under a key belongs to the event that owned the key before.
C32_PersistWritesOwnRecord ==
    [][(txns # <<>> /\ Head(txns).op = "update" /\ txns' = Tail(txns)) =>
          /\ DOMAIN store' = DOMAIN store
          /\ \A q \in DOMAIN store : store'[q].txnId = store[q].txnId]_vars

\* C33: removeRemoteEchos changes the relatedEventId of a pending event only if the relatedTxnId of that event is the txnId of a pending event the call removes.
C33_EchoLeavesOtherRelations ==
    [][(txns # <<>> /\ Head(txns).op = "sync" /\ txns' = Tail(txns)) =>
          \A t \in InCollection(pendingEvents) :
              pe'[t].data.relatedEventId # pe[t].data.relatedEventId =>
                  \E k \in 1..Len(echoRemoved') :
                      pe[echoRemoved'[k]].data.txnId = pe[t].data.relatedTxnId]_vars

\* C34: every call of room.fillGap a fill makes is passed the entry the tile holds at that moment, so that a fill made after updateEntry uses the updated token and none before it.
C34_FillUsesCurrentEntry ==
    [][Len(fillGap') > Len(fillGap) =>
          /\ fillGap'[Len(fillGap')].entry = tile.entry
          /\ filled'[Len(filled')] = tile.entry.token]_vars

\* Three fills in a row, the entry updated during each, were made with the tokens 5, 6 and 7.
C34_Witness == filled = <<FirstToken, FirstToken + 1, FirstToken + 2>>

\* C35: a GapTile has at most one room.fillGap call in flight, isLoading is true exactly while one is in flight, and one notifyVisible call starts at most 10 fills.
C35_OneFillInFlight ==
    /\ Len(fillGap) <= 1
    /\ tile.loading <=> fillGap # <<>>
    /\ \A n \in 1..MaxCalls : notifyVisible[n].started <= MaxDepth

\* A notifyVisible call has its tenth fill in flight while another notifyVisible call is running and an earlier fill has failed.
C35_Witness ==
    /\ \E n \in 1..MaxCalls : notifyVisible[n].started = MaxDepth /\ notifyVisible[n].pc = "fill"
    /\ \A n \in 1..MaxCalls : notifyVisible[n].pc # "idle"
    /\ tile.loading /\ tile.error

\* C36: a verification message whose transaction_id is not the id of the channel is not recorded, and the channel answers it with a cancel message unless it is a start or a cancel message, which it answers with none.
C36_UnknownTransactionCancelled ==
    \A k \in 1..Len(inbox) :
        (startsWithVerification(inbox[k].type) /\ inbox[k].transaction_id # inbox[k].id) =>
            /\ ~inbox[k].recorded
            /\ inbox[k].cancels <=>
                   inbox[k].type \notin {VerificationEventTypes.Start,
                                         VerificationEventTypes.Cancel}

====
